---- MODULE Spec2Model ----
(***************************************************************************)
(* Ascon-CXOF128 software implementation (software/hash.c,                 *)
(* software/permutations.h, software/crypto_hash.h).                        *)
(*                                                                         *)
(* A 64-bit lane is the set of its set bit positions (0 = least            *)
(* significant), so XOR, AND, NOT and rotation are exact on all 64 bits.   *)
(* A byte is a number 0..255.  An unsigned long long whose full range is   *)
(* needed (outlen_bits) is four 16-bit limbs, least significant first,     *)
(* with arithmetic modulo 2^64.                                            *)
(***************************************************************************)
EXTENDS Integers, Sequences, FiniteSets, TLC

(* ------------------------------ bounds -------------------------------- *)
MaxInLen == 9
MaxCsLen == 9
MaxOutLen == 17
MaxOutBits == 17

(* ----------------------- 64-bit lanes (uint64_t) ---------------------- *)
LaneBits == 0..63

XOR(a, b) == (a \ b) \cup (b \ a)

AND(a, b) == a \cap b

NOT(a) == LaneBits \ a

ROR(a, r) == {(i + 64 - r) % 64 : i \in a}

RECURSIVE LaneOfNat(_, _)
LaneOfNat(v, k) ==
  IF v = 0 THEN {}
  ELSE (IF v % 2 = 1 THEN {k} ELSE {}) \cup LaneOfNat(v \div 2, k + 1)

Lane(v) == LaneOfNat(v, 0)

RECURSIVE Pow2(_)
Pow2(k) == IF k = 0 THEN 1 ELSE 2 * Pow2(k - 1)

(* byte k (0 = lowest address, least significant) of lane a *)
ByteOfLane(a, k) ==
  LET W(i) == IF (8 * k + i) \in a THEN Pow2(i) ELSE 0
  IN W(0) + W(1) + W(2) + W(3) + W(4) + W(5) + W(6) + W(7)

(* -------------------- word.h / ascon.h / api.h ------------------------ *)
ASCON_HASH_RATE == 8

CRYPTO_BYTES == 32

ASCON_PA_ROUNDS == 12

(* 0x0000080000cc0004 *)
ASCON_CXOF_IV == {2, 18, 19, 22, 23, 43}

(* the n bytes at p[0..n-1] as a lane, p[0] in the low byte *)
LOADBYTES(bytes, pos, n) ==
  UNION {{8 * k + i : i \in Lane(bytes[pos + k + 1])} : k \in 0..(n - 1)}

(* byte 0x80 at byte offset i *)
PAD(i) == {8 * i + 7}

(* the low n bytes of lane x written to mem[pos..pos+n-1] *)
STOREBYTES(mem, pos, x, n) ==
  [j \in DOMAIN mem |->
     IF j >= pos /\ j < pos + n THEN ByteOfLane(x, j - pos) ELSE mem[j]]

(* ------------------------------ round.h ------------------------------- *)
(* A permutation state carries the five lanes and, as history, the round  *)
(* constants applied so far.                                              *)
ROUND(st, C) ==
  LET s == st.x
      a0 == XOR(s[1], s[5])
      a1 == s[2]
      a2 == XOR(XOR(s[3], Lane(C)), s[2])
      a3 == s[4]
      a4 == XOR(s[5], s[4])
      t0 == XOR(a0, AND(NOT(a1), a2))
      t1 == XOR(a1, AND(NOT(a2), a3))
      t2 == XOR(a2, AND(NOT(a3), a4))
      t3 == XOR(a3, AND(NOT(a4), a0))
      t4 == XOR(a4, AND(NOT(a0), a1))
      u1 == XOR(t1, t0)
      u0 == XOR(t0, t4)
      u3 == XOR(t3, t2)
      u2 == NOT(t2)
  IN [x |-> << XOR(u0, XOR(ROR(u0, 19), ROR(u0, 28))),
               XOR(u1, XOR(ROR(u1, 61), ROR(u1, 39))),
               XOR(u2, XOR(ROR(u2, 1), ROR(u2, 6))),
               XOR(u3, XOR(ROR(u3, 10), ROR(u3, 17))),
               XOR(t4, XOR(ROR(t4, 7), ROR(t4, 41))) >>,
      rcs |-> Append(st.rcs, C)]

(* --------------------------- permutations.h --------------------------- *)
(* 0xf0 0xe1 0xd2 0xc3 0xb4 0xa5 0x96 0x87 0x78 0x69 0x5a 0x4b *)
P12(s) ==
  ROUND(ROUND(ROUND(ROUND(ROUND(ROUND(ROUND(ROUND(ROUND(ROUND(ROUND(ROUND(
    s, 240), 225), 210), 195), 180), 165), 150), 135), 120), 105), 90), 75)

P8(s) ==
  ROUND(ROUND(ROUND(ROUND(ROUND(ROUND(ROUND(ROUND(
    s, 180), 165), 150), 135), 120), 105), 90), 75)

P6_first(s) ==
  ROUND(ROUND(ROUND(ROUND(ROUND(ROUND(
    s, 240), 225), 210), 195), 180), 165)

P6(s) ==
  ROUND(ROUND(ROUND(ROUND(ROUND(ROUND(
    s, 150), 135), 120), 105), 90), 75)

P_rounds_no_default(s, pa_rounds) ==
  CASE pa_rounds = 6 -> P6(s)
    [] pa_rounds = 8 -> P8(s)
    [] pa_rounds = 12 -> P12(s)
    [] OTHER -> P8(s)

P_rounds(s, pa_rounds) ==
  CASE pa_rounds = 6 -> P6(s)
    [] pa_rounds = 8 -> P8(s)
    [] OTHER -> P12(s)

(* ------------- unsigned long long as four 16-bit limbs ---------------- *)
LimbBase == 65536

ULL(n) == <<n % LimbBase, (n \div LimbBase) % LimbBase, 0, 0>>

(* 2^64 - k for 1 <= k <= 65536 *)
ULLTop(k) == <<LimbBase - k, LimbBase - 1, LimbBase - 1, LimbBase - 1>>

(* a + k modulo 2^64, for a small k *)
ULLAdd(a, k) ==
  LET l1 == a[1] + k
      l2 == a[2] + (l1 \div LimbBase)
      l3 == a[3] + (l2 \div LimbBase)
      l4 == a[4] + (l3 \div LimbBase)
  IN <<l1 % LimbBase, l2 % LimbBase, l3 % LimbBase, l4 % LimbBase>>

(* a / 8 *)
ULLDiv8(a) ==
  <<(a[1] \div 8) + (a[2] % 8) * 8192,
    (a[2] \div 8) + (a[3] % 8) * 8192,
    (a[3] \div 8) + (a[4] % 8) * 8192,
    a[4] \div 8>>

(* a & 7 *)
ULLAnd7(a) == a[1] % 8

(* a - 1 modulo 2^64 *)
ULLDec(a) ==
  IF a[1] > 0 THEN <<a[1] - 1, a[2], a[3], a[4]>>
  ELSE IF a[2] > 0 THEN <<LimbBase - 1, a[2] - 1, a[3], a[4]>>
  ELSE IF a[3] > 0 THEN <<LimbBase - 1, LimbBase - 1, a[3] - 1, a[4]>>
  ELSE IF a[4] > 0 THEN <<LimbBase - 1, LimbBase - 1, LimbBase - 1, a[4] - 1>>
  ELSE <<LimbBase - 1, LimbBase - 1, LimbBase - 1, LimbBase - 1>>

ULLLess(a, b) ==
  \/ a[4] < b[4]
  \/ a[4] = b[4] /\ a[3] < b[3]
  \/ a[4] = b[4] /\ a[3] = b[3] /\ a[2] < b[2]
  \/ a[4] = b[4] /\ a[3] = b[3] /\ a[2] = b[2] /\ a[1] < b[1]

(* values the model can count with *)
ULLSmall(a) == a[4] = 0 /\ a[3] = 0 /\ a[2] = 0

ULLNat(a) == a[1]

(* ------------------- hash.c: crypto_cxof_rounds ----------------------- *)
(* printstate and printbytes (printstate.h) are development hooks that    *)
(* print and change nothing; they have no step here.                      *)
(* The frame of one call: the parameters as the code advances them (in,   *)
(* cs and out are a buffer and an offset into it), the local state s, the *)
(* position pc (a line of hash.c), the output memory mem, and as history  *)
(* the steps taken (ev), the constants of the last permutation (rcs), the *)
(* output indices written (wr), the size of each output block (sq) and    *)
(* the words XORed into x0, a final block together with its padding (ab). *)
MemTop == CRYPTO_BYTES + MaxOutLen

MemIdx == (0 - 1)..MemTop

FILL == 255

Mem0 == [j \in MemIdx |-> FILL]

NoCall ==
  [pc |-> "none", s |-> <<>>, in |-> <<>>, inpos |-> 0, inlen |-> 0,
   cs |-> <<>>, cspos |-> 0, cslen |-> 0, outpos |-> 0, outlen |-> 0,
   pa_rounds |-> 0, mem |-> Mem0, rc |-> 0 - 1,
   ev |-> <<>>, rcs |-> <<>>, wr |-> {}, sq |-> <<>>, ab |-> <<>>]

(* entry of crypto_cxof_rounds(out, outlen, in, inlen, cs, cslen, pa_rounds) *)
crypto_cxof_rounds(mem, outlen, in, inlen, cs, cslen, pa_rounds) ==
  [NoCall EXCEPT !.pc = "L26", !.mem = mem, !.outlen = outlen, !.in = in,
                 !.inlen = inlen, !.cs = cs, !.cslen = cslen,
                 !.pa_rounds = pa_rounds]

(* one P_rounds(&s, pa_rounds) call *)
Permute(c) ==
  LET r == P_rounds([x |-> c.s, rcs |-> <<>>], c.pa_rounds)
  IN [c EXCEPT !.s = r.x, !.rcs = r.rcs, !.ev = Append(@, "P")]

(* the words absorbed so far, v included: padding joins the final block *)
Absorbed(c, v, tag) ==
  IF tag \in {"zpad", "mpad"}
  THEN [c.ab EXCEPT ![Len(c.ab)] = XOR(@, v)]
  ELSE Append(c.ab, v)

(* variant: the XOR goes to x1 *)
XorX1(c, v, tag) ==
  [c EXCEPT !.s = [@ EXCEPT ![2] = XOR(@, v)], !.ev = Append(@, tag),
            !.ab = Absorbed(c, v, tag)]

(* s.x[0] ^= v *)
XorX0(c, v, tag) ==
  [c EXCEPT !.s = [@ EXCEPT ![1] = XOR(@, v)], !.ev = Append(@, tag),
            !.ab = Absorbed(c, v, tag)]

(* lines 26-30 *)
initialize(c) ==
  [c EXCEPT !.s = <<ASCON_CXOF_IV, {}, {}, {}, {}>>,
            !.ev = Append(@, "iv"), !.pc = "L32"]

(* line 32 *)
initialize_P(c) == [Permute(c) EXCEPT !.pc = "L36"]

(* line 36 *)
absorb_cs_length(c) ==
  [XorX0(c, Lane(c.cslen * 8), "len") EXCEPT !.pc = "L38"]

(* line 38 *)
absorb_cs_length_P(c) == [Permute(c) EXCEPT !.pc = "L41"]

(* lines 41-42, cslen >= ASCON_HASH_RATE *)
absorb_cs(c) ==
  [XorX0(c, LOADBYTES(c.cs, c.cspos, 8), "z") EXCEPT !.pc = "L44"]

(* lines 44-46 *)
absorb_cs_P(c) ==
  [Permute(c) EXCEPT !.cspos = @ + ASCON_HASH_RATE,
                     !.cslen = @ - ASCON_HASH_RATE, !.pc = "L41"]

(* variant: the final label block is skipped when no byte is left *)
absorb_final_cs_skip(c) ==
  IF c.cslen = 0 THEN [c EXCEPT !.pc = "L55"]
  ELSE [XorX0(c, LOADBYTES(c.cs, c.cspos, c.cslen), "zlast") EXCEPT !.pc = "L50"]

(* lines 41 and 49, cslen < ASCON_HASH_RATE *)
absorb_final_cs(c) ==
  [XorX0(c, LOADBYTES(c.cs, c.cspos, c.cslen), "zlast") EXCEPT !.pc = "L50"]

(* line 50 *)
pad_cs(c) == [XorX0(c, PAD(c.cslen), "zpad") EXCEPT !.pc = "L52"]

(* line 52 *)
pad_cs_P(c) == [Permute(c) EXCEPT !.pc = "L55"]

(* lines 55-56, inlen >= ASCON_HASH_RATE *)
absorb_plaintext(c) ==
  [XorX0(c, LOADBYTES(c.in, c.inpos, 8), "m") EXCEPT !.pc = "L58"]

(* lines 58-60 *)
absorb_plaintext_P(c) ==
  [Permute(c) EXCEPT !.inpos = @ + ASCON_HASH_RATE,
                     !.inlen = @ - ASCON_HASH_RATE, !.pc = "L55"]

(* lines 55 and 63, inlen < ASCON_HASH_RATE *)
absorb_final_plaintext(c) ==
  [XorX0(c, LOADBYTES(c.in, c.inpos, c.inlen), "mlast") EXCEPT !.pc = "L64"]

(* variant: no padding byte after the message *)
pad_plaintext_nopad(c) == [XorX0(c, {}, "mpad") EXCEPT !.pc = "L66"]

(* line 64 *)
pad_plaintext(c) == [XorX0(c, PAD(c.inlen), "mpad") EXCEPT !.pc = "L66"]

(* line 66 *)
pad_plaintext_P(c) == [Permute(c) EXCEPT !.pc = "L69"]

(* STOREBYTES(out, s.x[0], n) *)
Squeeze(c, n) ==
  [c EXCEPT !.mem = STOREBYTES(@, c.outpos, c.s[1], n),
            !.wr = @ \cup {c.outpos + k : k \in 0..(n - 1)},
            !.ev = Append(@, "sq"), !.sq = Append(@, n)]

(* lines 69-70, outlen > ASCON_HASH_RATE *)
squeeze_full(c) == [Squeeze(c, 8) EXCEPT !.pc = "L72"]

(* lines 72-74 *)
squeeze_full_P(c) ==
  [Permute(c) EXCEPT !.outpos = @ + ASCON_HASH_RATE,
                     !.outlen = @ - ASCON_HASH_RATE, !.pc = "L69"]

(* variant: the final block takes the high bytes of x0 *)
squeeze_final_high(c) ==
  [Squeeze([c EXCEPT !.s = [@ EXCEPT ![1] = ROR(@, 8 * (8 - c.outlen))]],
           c.outlen)
     EXCEPT !.s = c.s, !.pc = "L81"]

(* variant: one more permutation after the final block *)
squeeze_final_P(c) == [Permute(Squeeze(c, c.outlen)) EXCEPT !.pc = "L81"]

(* lines 69 and 77, outlen <= ASCON_HASH_RATE *)
squeeze_final(c) == [Squeeze(c, c.outlen) EXCEPT !.pc = "L81"]

(* line 81 *)
return_0(c) == [c EXCEPT !.rc = 0, !.pc = "ret"]

(* the statement at c.pc *)
CoreStep(c) ==
  CASE c.pc = "L26" -> initialize(c)
    [] c.pc = "L32" -> initialize_P(c)
    [] c.pc = "L36" -> absorb_cs_length(c)
    [] c.pc = "L38" -> absorb_cs_length_P(c)
    [] c.pc = "L41" /\ c.cslen >= ASCON_HASH_RATE -> absorb_cs(c)
    [] c.pc = "L41" /\ c.cslen < ASCON_HASH_RATE -> absorb_final_cs(c)
    [] c.pc = "L44" -> absorb_cs_P(c)
    [] c.pc = "L50" -> pad_cs(c)
    [] c.pc = "L52" -> pad_cs_P(c)
    [] c.pc = "L55" /\ c.inlen >= ASCON_HASH_RATE -> absorb_plaintext(c)
    [] c.pc = "L55" /\ c.inlen < ASCON_HASH_RATE -> absorb_final_plaintext(c)
    [] c.pc = "L58" -> absorb_plaintext_P(c)
    [] c.pc = "L64" -> pad_plaintext(c)
    [] c.pc = "L66" -> pad_plaintext_P(c)
    [] c.pc = "L69" /\ c.outlen > ASCON_HASH_RATE -> squeeze_full(c)
    [] c.pc = "L69" /\ c.outlen <= ASCON_HASH_RATE -> squeeze_final(c)
    [] c.pc = "L72" -> squeeze_full_P(c)
    [] c.pc = "L81" -> return_0(c)

(* the call run to its return *)
RECURSIVE RunCore(_)
RunCore(c) == IF c.pc = "ret" THEN c ELSE RunCore(CoreStep(c))

(* crypto_cxof, line 87 *)
crypto_cxof(mem, outlen, in, inlen, cs, cslen) ==
  crypto_cxof_rounds(mem, outlen, in, inlen, cs, cslen, ASCON_PA_ROUNDS)

(* variant: the message is passed as the label too *)
crypto_hash_label(mem, in, len) ==
  crypto_cxof(mem, CRYPTO_BYTES, in, len, in, len)

(* crypto_hash, line 122 *)
crypto_hash(mem, in, len) ==
  crypto_cxof(mem, CRYPTO_BYTES, in, len, <<>>, 0)

(* --------------------------- callers' inputs -------------------------- *)
InLens == {0, 3, 8, MaxInLen}

CsLens == {0, 8, MaxCsLen}

(* every remainder of a first block, then the block boundaries *)
OutLens == 0..9 \cup {16, MaxOutLen}

(* 6/8/12 and values the dispatcher has no case for *)
Rounds == {6, 8, 12, 0 - 1, 0, 7, 13}

(* round counts passed with a bit length *)
BitsRounds == {6, 12, 7}

(* small bit counts, and 2^64 - 1, 2^64 - 7, 2^64 - 8 *)
OutBits ==
  {ULL(b) : b \in 0..9 \cup {16, MaxOutBits}} \cup {ULLTop(k) : k \in {1, 7, 8}}

(* "abc..." *)
Msg(len) == [i \in 1..len |-> 96 + i]

(* 0x10 0x11 ... *)
Label(len) == [i \in 1..len |-> 15 + i]

(* ------------------------------- state -------------------------------- *)
(* w: the frame of the entry point called (fn), its position and locals,  *)
(* and what the caller kept of its previous call (prev).                  *)
(* c: the frame of crypto_cxof_rounds and the output memory.              *)
VARIABLES w, c

vars == <<w, c>>

Idle ==
  [fn |-> "none", pc |-> "idle", outlen_bits |-> ULL(0),
   outlen_bytes |-> ULL(0), rem |-> 0, maskidx |-> <<>>, rc |-> 0 - 1,
   outlen |-> 0, in |-> <<>>, inlen |-> 0, cs |-> <<>>, cslen |-> 0,
   pa_rounds |-> 0, prev |-> <<>>]

(* the caller's arguments, kept in the entry point's frame *)
Entry(fn, pc, outlen, in, inlen, cs, cslen, pa_rounds) ==
  [Idle EXCEPT !.fn = fn, !.pc = pc, !.outlen = outlen, !.in = in,
               !.inlen = inlen, !.cs = cs, !.cslen = cslen,
               !.pa_rounds = pa_rounds]

Init == w = Idle /\ c = NoCall

(* --------------------------- entry points ----------------------------- *)
Call_crypto_cxof_rounds ==
  /\ w.pc = "idle"
  /\ \E inlen \in InLens, cslen \in CsLens, outlen \in OutLens, n \in Rounds :
       /\ c' = crypto_cxof_rounds(c.mem, outlen, Msg(inlen), inlen,
                                  Label(cslen), cslen, n)
       /\ w' = Entry("crypto_cxof_rounds", "core", outlen, Msg(inlen), inlen,
                     Label(cslen), cslen, n)

Call_crypto_cxof ==
  /\ w.pc = "idle"
  /\ \E inlen \in InLens, cslen \in CsLens, outlen \in OutLens :
       /\ c' = crypto_cxof(c.mem, outlen, Msg(inlen), inlen,
                           Label(cslen), cslen)
       /\ w' = Entry("crypto_cxof", "core", outlen, Msg(inlen), inlen,
                     Label(cslen), cslen, 0)

Call_crypto_hash ==
  /\ w.pc = "idle"
  /\ \E len \in InLens :
       /\ c' = crypto_hash(c.mem, Msg(len), len)
       /\ w' = Entry("crypto_hash", "core", 0, Msg(len), len, <<>>, 0, 0)

Call_crypto_cxof_bits_rounds ==
  /\ w.pc = "idle"
  /\ \E inlen \in InLens, cslen \in CsLens, b \in OutBits, n \in BitsRounds :
       w' = [Entry("crypto_cxof_bits_rounds", "L94", 0, Msg(inlen), inlen,
                   Label(cslen), cslen, n) EXCEPT !.outlen_bits = b]
  /\ UNCHANGED c

(* crypto_cxof_bits, line 117 *)
Call_crypto_cxof_bits ==
  /\ w.pc = "idle"
  /\ \E inlen \in InLens, cslen \in CsLens, b \in OutBits :
       w' = [Entry("crypto_cxof_bits", "L94", 0, Msg(inlen), inlen,
                   Label(cslen), cslen, ASCON_PA_ROUNDS)
               EXCEPT !.outlen_bits = b]
  /\ UNCHANGED c

(* ------------------- steps of crypto_cxof_rounds ---------------------- *)
At(l) == w.pc = "core" /\ c.pc = l

Initialize == At("L26") /\ c' = initialize(c) /\ UNCHANGED w

InitializeP == At("L32") /\ c' = initialize_P(c) /\ UNCHANGED w

AbsorbCsLength == At("L36") /\ c' = absorb_cs_length(c) /\ UNCHANGED w

AbsorbCsLengthP == At("L38") /\ c' = absorb_cs_length_P(c) /\ UNCHANGED w

AbsorbCs ==
  At("L41") /\ c.cslen >= ASCON_HASH_RATE /\ c' = absorb_cs(c) /\ UNCHANGED w

AbsorbCsP == At("L44") /\ c' = absorb_cs_P(c) /\ UNCHANGED w

AbsorbFinalCs ==
  /\ At("L41") /\ c.cslen < ASCON_HASH_RATE
  /\ c' = absorb_final_cs(c) /\ UNCHANGED w

PadCs == At("L50") /\ c' = pad_cs(c) /\ UNCHANGED w

PadCsP == At("L52") /\ c' = pad_cs_P(c) /\ UNCHANGED w

AbsorbPlaintext ==
  /\ At("L55") /\ c.inlen >= ASCON_HASH_RATE
  /\ c' = absorb_plaintext(c) /\ UNCHANGED w

AbsorbPlaintextP == At("L58") /\ c' = absorb_plaintext_P(c) /\ UNCHANGED w

AbsorbFinalPlaintext ==
  /\ At("L55") /\ c.inlen < ASCON_HASH_RATE
  /\ c' = absorb_final_plaintext(c) /\ UNCHANGED w

PadPlaintext == At("L64") /\ c' = pad_plaintext(c) /\ UNCHANGED w

PadPlaintextP == At("L66") /\ c' = pad_plaintext_P(c) /\ UNCHANGED w

SqueezeFull ==
  /\ At("L69") /\ c.outlen > ASCON_HASH_RATE
  /\ c' = squeeze_full(c) /\ UNCHANGED w

SqueezeFullP == At("L72") /\ c' = squeeze_full_P(c) /\ UNCHANGED w

SqueezeFinal ==
  /\ At("L69") /\ c.outlen <= ASCON_HASH_RATE
  /\ c' = squeeze_final(c) /\ UNCHANGED w

Return0 == At("L81") /\ c' = return_0(c) /\ UNCHANGED w

(* return to crypto_cxof / crypto_hash / the caller: the status is passed on *)
ReturnStatus ==
  /\ At("ret")
  /\ w.fn \in {"crypto_cxof_rounds", "crypto_cxof", "crypto_hash"}
  /\ w' = [w EXCEPT !.rc = c.rc, !.pc = "ret"]
  /\ UNCHANGED c

(* ------------------ steps of crypto_cxof_bits_rounds ------------------ *)
(* line 94, outlen_bits == 0 *)
BitsReturnEmpty ==
  /\ w.pc = "L94" /\ w.outlen_bits = ULL(0)
  /\ w' = [w EXCEPT !.rc = 0, !.pc = "ret"]
  /\ UNCHANGED c

(* variant: no early return for outlen_bits == 0 *)
BitsOutlenBytes_unguarded ==
  /\ w.pc = "L94"
  /\ w' = [w EXCEPT !.outlen_bytes = ULLDiv8(ULLAdd(w.outlen_bits, 7)),
                    !.pc = "L102"]
  /\ UNCHANGED c

(* lines 94 and 101 *)
BitsOutlenBytes ==
  /\ w.pc = "L94" /\ w.outlen_bits # ULL(0)
  /\ w' = [w EXCEPT !.outlen_bytes = ULLDiv8(ULLAdd(w.outlen_bits, 7)),
                    !.pc = "L102"]
  /\ UNCHANGED c

(* line 102, the call; counted outputs only *)
BitsCall ==
  /\ w.pc = "L102"
  /\ ULLSmall(w.outlen_bytes) /\ ULLNat(w.outlen_bytes) <= MemTop
  /\ c' = crypto_cxof_rounds(c.mem, ULLNat(w.outlen_bytes), w.in, w.inlen,
                             w.cs, w.cslen, w.pa_rounds)
  /\ w' = [w EXCEPT !.pc = "core"]

(* line 102, the return *)
BitsCallReturn ==
  /\ At("ret")
  /\ w.fn \in {"crypto_cxof_bits_rounds", "crypto_cxof_bits"}
  /\ w' = [w EXCEPT !.rc = c.rc, !.pc = "L103"]
  /\ UNCHANGED c

(* lines 103-106 *)
BitsRem ==
  /\ w.pc = "L103"
  /\ w' = IF w.rc # 0 THEN [w EXCEPT !.pc = "ret"]
          ELSE LET rem == ULLAnd7(w.outlen_bits)
               IN [w EXCEPT !.rem = rem,
                            !.pc = IF rem # 0 THEN "L108" ELSE "L111"]
  /\ UNCHANGED c

ByteAnd(a, b) == ByteOfLane(AND(Lane(a), Lane(b)), 0)

(* line 108: 0xFF & ~((1u << (8 - rem)) - 1) *)
Mask(rem) == ByteAnd(255, ByteOfLane(NOT(Lane(Pow2(8 - rem) - 1)), 0))

(* out[j] &= mask *)
MaskAt(cc, j, rem) ==
  [cc EXCEPT !.mem = [@ EXCEPT ![j] = ByteAnd(@, Mask(rem))],
             !.wr = @ \cup {j}]

(* lines 108-109, outlen_bytes - 1 an index the memory has *)
BitsMask ==
  /\ w.pc = "L108"
  /\ LET idx == ULLDec(w.outlen_bytes)
     IN /\ ULLSmall(idx) /\ ULLNat(idx) <= MemTop
        /\ c' = MaskAt(c, ULLNat(idx), w.rem)
        /\ w' = [w EXCEPT !.maskidx = idx, !.pc = "L111"]

(* lines 108-109, outlen_bytes = 0: the index is 2^64 - 1, the access is  *)
(* outside every object; the byte before out is masked, or the access     *)
(* traps                                                                  *)
BitsMaskWild ==
  /\ w.pc = "L108"
  /\ LET idx == ULLDec(w.outlen_bytes)
     IN /\ ~ ULLSmall(idx)
        /\ \/ /\ c' = MaskAt(c, 0 - 1, w.rem)
              /\ w' = [w EXCEPT !.maskidx = idx, !.pc = "L111"]
           \/ /\ c' = c
              /\ w' = [w EXCEPT !.maskidx = idx, !.pc = "trap"]

(* line 111 *)
BitsReturn0 ==
  /\ w.pc = "L111"
  /\ w' = [w EXCEPT !.rc = 0, !.pc = "ret"]
  /\ UNCHANGED c

(* the caller takes the result; the next call gets a fresh buffer *)
Done == w.pc = "ret" /\ w' = Idle /\ c' = NoCall

Next ==
  \/ Call_crypto_cxof_rounds \/ Call_crypto_cxof \/ Call_crypto_hash
  \/ Call_crypto_cxof_bits_rounds \/ Call_crypto_cxof_bits
  \/ Initialize \/ InitializeP \/ AbsorbCsLength \/ AbsorbCsLengthP
  \/ AbsorbCs \/ AbsorbCsP \/ AbsorbFinalCs \/ PadCs \/ PadCsP
  \/ AbsorbPlaintext \/ AbsorbPlaintextP \/ AbsorbFinalPlaintext
  \/ PadPlaintext \/ PadPlaintextP
  \/ SqueezeFull \/ SqueezeFullP \/ SqueezeFinal \/ Return0 \/ ReturnStatus
  \/ BitsReturnEmpty \/ BitsOutlenBytes \/ BitsCall \/ BitsCallReturn
  \/ BitsRem \/ BitsMask \/ BitsMaskWild \/ BitsReturn0
  \/ Done

Spec == Init /\ [][Next]_vars

(* ------------------------------ results ------------------------------ *)
(* the bytes a call left in out[0..n-1] *)
OutBytes(cc, n) == [i \in 1..n |-> cc.mem[i - 1]]

Returned(fns) == w.pc = "ret" /\ w.fn \in fns

BitsFns == {"crypto_cxof_bits_rounds", "crypto_cxof_bits"}

(* the result of a reference call of crypto_cxof_rounds on a fresh buffer *)
Xof(outlen, in, inlen, cs, cslen, n) ==
  RunCore(crypto_cxof_rounds(Mem0, outlen, in, inlen, cs, cslen, n))

(* ceil(a / 8) without the wrap of a + 7 *)
Ceil8(a) == IF ULLAnd7(a) = 0 THEN ULLDiv8(a) ELSE ULLAdd(ULLDiv8(a), 1)

(* C1: the outlen1 bytes of a call of crypto_cxof_rounds are the first    *)
(* outlen1 bytes of every call with a larger outlen2 on the same message, *)
(* label and round count, block boundaries included.                      *)
C1_PrefixConsistency ==
  Returned({"crypto_cxof_rounds"}) =>
    \A outlen1 \in OutLens :
      outlen1 <= w.outlen =>
        OutBytes(Xof(outlen1, w.in, w.inlen, w.cs, w.cslen, w.pa_rounds),
                 outlen1)
          = OutBytes(c, outlen1)

C1_Witness ==
  /\ Returned({"crypto_cxof_rounds"}) /\ w.outlen = MaxOutLen
  /\ Len(c.sq) = 3 /\ c.sq[1] = 8

(* C2: for outlen_bits > 0 with r = outlen_bits mod 8 the output of       *)
(* crypto_cxof_bits_rounds is the output of crypto_cxof_rounds for        *)
(* ceil(outlen_bits/8) bytes, the last byte keeping only its top r bits   *)
(* when r # 0; no byte is altered when r = 0.                             *)
C2_BitGranularity ==
  (Returned(BitsFns) /\ w.outlen_bits # ULL(0)) =>
    LET nb == Ceil8(w.outlen_bits)
        r == ULLAnd7(w.outlen_bits)
    IN /\ w.outlen_bytes = nb
       /\ ULLSmall(nb) =>
            LET n == ULLNat(nb)
                ref == OutBytes(Xof(n, w.in, w.inlen, w.cs, w.cslen,
                                    w.pa_rounds), n)
                got == OutBytes(c, n)
            IN \A i \in 1..n :
                 IF i = n /\ r # 0
                 THEN /\ got[i] % Pow2(8 - r) = 0
                      /\ got[i] \div Pow2(8 - r) = ref[i] \div Pow2(8 - r)
                 ELSE got[i] = ref[i]

(* C3: for every outlen_bits of the unsigned 64-bit range the byte length *)
(* handed to crypto_cxof_rounds is ceil(outlen_bits/8), exactly the bytes *)
(* out[0 .. ceil(outlen_bits/8)-1] are written, and the masking step      *)
(* touches index ceil(outlen_bits/8)-1 only, an index of the buffer.      *)
C3_OutputSize ==
  (w.fn \in BitsFns /\ w.outlen_bits # ULL(0)) =>
    LET nb == Ceil8(w.outlen_bits)
    IN /\ w.pc \notin {"L94"} => w.outlen_bytes = nb
       /\ w.maskidx # <<>> =>
            w.maskidx = ULLDec(nb) /\ ULLLess(w.maskidx, nb)
       /\ \A j \in c.wr : j >= 0 /\ ULLLess(ULL(j), nb)
       /\ (w.pc = "ret" /\ ULLSmall(nb)) => c.wr = 0..(ULLNat(nb) - 1)
       /\ w.pc # "trap"

(* C4: a call with outlen_bits = 0 returns 0, leaves every byte of the    *)
(* output buffer unchanged and does not run the sponge: no state          *)
(* initialisation, no permutation.                                        *)
C4_ZeroBits ==
  (w.fn \in BitsFns /\ w.outlen_bits = ULL(0) /\ w.pc # "L94") =>
    /\ w.pc = "ret" /\ w.rc = 0
    /\ c.mem = Mem0 /\ c.wr = {}
    /\ c.s = <<>> /\ c.ev = <<>> /\ c.pc = "none"

C4_Witness ==
  Returned({"crypto_cxof_bits_rounds"}) /\ w.outlen_bits = ULL(0)
    /\ w.inlen = 8 /\ w.pa_rounds = 6

(* C5: crypto_hash writes the bytes and returns the status of             *)
(* crypto_cxof_rounds with outlen = 32, the message, an empty label and   *)
(* 12 rounds; crypto_cxof those of crypto_cxof_rounds with 12 rounds.     *)
C5_Wrappers ==
  /\ Returned({"crypto_hash"}) =>
       LET ref == Xof(32, w.in, w.inlen, <<>>, 0, 12)
       IN c.mem = ref.mem /\ w.rc = ref.rc /\ c.wr = 0..31
  /\ Returned({"crypto_cxof"}) =>
       LET ref == Xof(w.outlen, w.in, w.inlen, w.cs, w.cslen, 12)
       IN c.mem = ref.mem /\ w.rc = ref.rc

C5_Witness ==
  /\ Returned({"crypto_hash"}) /\ w.inlen = 3
  /\ Len(c.sq) = 4

(* the permutation the round count selects *)
Selected(n, st) ==
  IF n = 6 THEN P6(st) ELSE IF n = 8 THEN P8(st) ELSE P12(st)

PermPcs == {"L32", "L38", "L44", "L52", "L58", "L66", "L72"}

(* C6: every permutation step applies P6 when n = 6, P8 when n = 8 and    *)
(* P12 for every other n, with the same n at every step of a call; a call *)
(* of crypto_cxof_rounds with n outside {6, 8, 12} returns the output of  *)
(* the call with n = 12.                                                  *)
C6_RoundDispatch ==
  [][/\ (w.pc = "core" /\ c.pc \in PermPcs) =>
          /\ c'.s = Selected(c.pa_rounds, [x |-> c.s, rcs |-> <<>>]).x
          /\ c'.pa_rounds = c.pa_rounds
          /\ c.pa_rounds = w.pa_rounds \/ w.fn \in {"crypto_cxof", "crypto_hash"}
     /\ (w'.pc = "ret" /\ w.pc = "core" /\ w.fn = "crypto_cxof_rounds"
           /\ w.pa_rounds \notin {6, 8, 12}) =>
          c'.mem = Xof(w.outlen, w.in, w.inlen, w.cs, w.cslen, 12).mem]_vars

C6_Witness ==
  /\ Returned({"crypto_cxof_rounds"}) /\ w.pa_rounds = 0 - 1
  /\ w.outlen = 16 /\ c.wr = 0..15

(* f0 e1 d2 c3 b4 a5 96 87 78 69 5a 4b *)
RC12 == <<240, 225, 210, 195, 180, 165, 150, 135, 120, 105, 90, 75>>

(* C7: a permutation Pn, n in {6, 8, 12}, applies n rounds whose          *)
(* constants are the last n entries of f0 e1 d2 c3 b4 a5 96 87 78 69 5a   *)
(* 4b in order: never the first n for n < 12, and the last one is 4b.     *)
C7_RoundConstants ==
  c.rcs # <<>> =>
    LET n == Len(c.rcs)
    IN /\ n = (IF c.pa_rounds \in {6, 8} THEN c.pa_rounds ELSE 12)
       /\ c.rcs = SubSeq(RC12, 13 - n, 12)
       /\ c.rcs[n] = 75
       /\ n < 12 => c.rcs # SubSeq(RC12, 1, n)

C7_Witness ==
  /\ c.pc = "L36" /\ c.pa_rounds = 6
  /\ c.rcs = <<150, 135, 120, 105, 90, 75>>

RECURSIVE Rep(_, _)
Rep(e, k) == IF k = 0 THEN <<>> ELSE e \o Rep(e, k - 1)

RECURSIVE Count(_, _)
Count(e, x) ==
  IF e = <<>> THEN 0 ELSE (IF Head(e) = x THEN 1 ELSE 0) + Count(Tail(e), x)

(* the steps up to the first output block, for a label of cslen bytes and *)
(* a message of inlen bytes                                               *)
AbsorbSteps(cslen, inlen) ==
  <<"iv", "P", "len", "P">>
    \o Rep(<<"z", "P">>, cslen \div 8) \o <<"zlast", "zpad", "P">>
    \o Rep(<<"m", "P">>, inlen \div 8) \o <<"mlast", "mpad", "P">>

(* the original lengths of the running call *)
CsLen0 == c.cspos + c.cslen

InLen0 == c.inpos + c.inlen

OutLen0 == c.outpos + c.outlen

(* C8: a call initialises, absorbs the label length, the label blocks,    *)
(* the message blocks, then squeezes; each XOR into x0 (the final block   *)
(* with its padding counting as one) is followed by exactly one           *)
(* permutation; the padded final blocks are absorbed for every length;    *)
(* 2 + (cslen/8 + 1) + (inlen/8 + 1) permutations precede the output.     *)
C8_AbsorbOrder ==
  c.pc # "none" =>
    LET e == AbsorbSteps(CsLen0, InLen0)
        k == Len(c.ev)
    IN IF k <= Len(e) THEN c.ev = SubSeq(e, 1, k)
       ELSE /\ SubSeq(c.ev, 1, Len(e)) = e
            /\ c.ev[Len(e) + 1] = "sq"
            /\ Count(SubSeq(c.ev, 1, Len(e)), "P")
                 = 2 + ((CsLen0 \div 8) + 1) + ((InLen0 \div 8) + 1)
            /\ \A i \in (Len(e) + 1)..k : c.ev[i] \in {"sq", "P"}

C8_Witness ==
  /\ c.pc = "ret" /\ CsLen0 = 8 /\ InLen0 = 0
  /\ Count(c.ev, "zpad") = 1 /\ Count(c.ev, "z") = 1 /\ Count(c.ev, "mpad") = 1

(* C9: a call writes out[0 .. outlen-1] and nothing else, in blocks of 8  *)
(* bytes and a final block of 1..8 bytes (0 bytes only for outlen = 0),   *)
(* with one permutation between two blocks and none after the last, that  *)
(* is ceil(outlen/8) - 1 permutations for outlen >= 1 and none for        *)
(* outlen = 0, and returns 0.                                             *)
C9_Squeeze ==
  (w.pc = "core" /\ c.pc = "ret") =>
    LET e == AbsorbSteps(CsLen0, InLen0)
        tail == SubSeq(c.ev, Len(e) + 1, Len(c.ev))
        nblk == IF OutLen0 = 0 THEN 1 ELSE (OutLen0 + 7) \div 8
    IN /\ c.wr = 0..(OutLen0 - 1)
       /\ \A j \in MemIdx \ c.wr : c.mem[j] = FILL
       /\ c.sq = [i \in 1..nblk |-> IF i < nblk THEN 8
                                     ELSE OutLen0 - 8 * (nblk - 1)]
       /\ (OutLen0 > 0) => c.sq[nblk] \in 1..8
       /\ tail = [i \in 1..(2 * nblk - 1) |->
                    IF i % 2 = 1 THEN "sq" ELSE "P"]
       /\ Count(tail, "P")
            = (IF OutLen0 = 0 THEN 0 ELSE ((OutLen0 + 7) \div 8) - 1)
       /\ c.rc = 0

C9_Witness ==
  /\ w.pc = "core" /\ c.pc = "ret" /\ OutLen0 = 16
  /\ c.sq = <<8, 8>>

(* C10: outside the permutation steps the lanes x1..x4 are not written    *)
(* after being set to 0 by the initialisation; an absorb or padding step  *)
(* changes x0 only, a squeeze step changes no lane.                       *)
C10_RateFrame ==
  [][(w.pc = "core" /\ c.pc \notin PermPcs /\ c.pc # "ret") =>
       /\ c.pc = "L26" => \A i \in 2..5 : c'.s[i] = {}
       /\ c.pc \in {"L36", "L41", "L50", "L55", "L64"} =>
            /\ \A i \in 2..5 : c'.s[i] = c.s[i]
            /\ c'.mem = c.mem
       /\ c.pc \in {"L69", "L81"} => c'.s = c.s]_vars

C10_Witness ==
  /\ c.pc = "L72" /\ c.s[2] # {} /\ c.s[5] # {}
  /\ Count(c.ev, "mpad") = 1

(* ------------ two calls in a row, the first one remembered ------------ *)
InjBase == 7

(* the bytes that end a message or label: none, a zero byte, the padding  *)
(* byte                                                                   *)
Tails == {<<>>, <<0>>, <<128>>}

(* nothing, or InjBase zero bytes, before the tail: with InjBase = 7 the  *)
(* tail byte is the last byte of a full block                             *)
Strings == Tails \cup {[i \in 1..InjBase |-> 0] \o t : t \in Tails}

(* as main of test_rounds.c: crypto_cxof_rounds called again *)
Call_again ==
  /\ w.pc = "idle"
  /\ \E in \in Strings, cs \in Strings :
       /\ c' = crypto_cxof_rounds(c.mem, 9, in, Len(in), cs, Len(cs), 6)
       /\ w' = [Entry("crypto_cxof_rounds", "core", 9, in, Len(in),
                      cs, Len(cs), 6) EXCEPT !.prev = w.prev]

(* the caller keeps the label, the message and the absorbed words *)
Done_keep ==
  /\ w.pc = "ret"
  /\ w' = [Idle EXCEPT !.prev = [cs |-> w.cs, in |-> w.in, ab |-> c.ab]]
  /\ c' = NoCall

NextAgain ==
  \/ Call_again
  \/ Initialize \/ InitializeP \/ AbsorbCsLength \/ AbsorbCsLengthP
  \/ AbsorbCs \/ AbsorbCsP \/ AbsorbFinalCs \/ PadCs \/ PadCsP
  \/ AbsorbPlaintext \/ AbsorbPlaintextP \/ AbsorbFinalPlaintext
  \/ PadPlaintext \/ PadPlaintextP
  \/ SqueezeFull \/ SqueezeFullP \/ SqueezeFinal \/ Return0 \/ ReturnStatus
  \/ Done_keep

SpecAgain == Init /\ [][NextAgain]_vars

(* C11: two calls with distinct (label, message) pairs XOR different      *)
(* sequences of words into x0: length prefix, label blocks, padded final  *)
(* label block, message blocks, padded final message block.               *)
C11_AbsorbInjective ==
  (w.prev # <<>> /\ c.pc \in {"L66", "L69", "L72", "L81", "ret"}) =>
    (<<w.prev.cs, w.prev.in>> # <<w.cs, w.in>> => w.prev.ab # c.ab)

(* two calls that differ only in where the label ends and the message    *)
(* begins                                                                 *)
C11_Witness ==
  /\ w.prev # <<>> /\ c.pc = "ret"
  /\ w.prev.cs = <<0>> /\ w.prev.in = <<>>
  /\ w.cs = <<>> /\ w.in = <<0>>
  /\ Len(c.ab) = 3 /\ Len(w.prev.ab) = 3

====
